---- MODULE Spec2Model ----
(***************************************************************************)
(* Model of the daily market summary agent (src/agent.py).                 *)
(*                                                                         *)
(* Prices are decimal fixed-point numbers: a close is an integer number of *)
(* thousandths, a stored (rounded) field an integer number of hundredths.  *)
(* The values a numpy float can take besides finite ones (nan, +inf, -inf) *)
(* are kept as tagged records, because the division of line 57 produces    *)
(* them when the previous close is 0.                                      *)
(***************************************************************************)
EXTENDS Integers, Sequences, FiniteSets, TLC

\* ------------------------------------------------------------------ bounds
NumIndices == 2

MaxHist == 2

\* closes the provider may return, in thousandths
Closes == {0, 998, 1004}

\* ------------------------------------------------------- configuration data
INDICES ==
    << [name |-> "Nifty 50",         symbol |-> "^NSEI"],
       [name |-> "Sensex",           symbol |-> "^BSESN"],
       [name |-> "Nifty Bank",       symbol |-> "^NSEBANK"],
       [name |-> "Nifty Next 50",    symbol |-> "^NSMIDCP"],
       [name |-> "S&P 500",          symbol |-> "^GSPC"],
       [name |-> "Dow Jones",        symbol |-> "^DJI"],
       [name |-> "Nasdaq Composite", symbol |-> "^IXIC"],
       [name |-> "Russell 2000",     symbol |-> "^RUT"],
       [name |-> "Nasdaq 100",       symbol |-> "^NDX"] >>

\* the indices the loop of fetch_market_data iterates over
Indices == SubSeq(INDICES, 1, NumIndices)

\* the threshold -0.3 of the sentiment rule, in hundredths
SentimentFloor == -30

\* --------------------------------------------------------------- numbers
Fin(x) == [k |-> "fin", v |-> x]

NaN == [k |-> "nan", v |-> 0]

PInf == [k |-> "pinf", v |-> 0]

NInf == [k |-> "ninf", v |-> 0]

IsNaN(x) == x.k = "nan"

\* x > 0, x < 0, x == 0 on floats: every comparison with nan is false
Gt0(x) == x.k = "pinf" \/ (x.k = "fin" /\ x.v > 0)

Lt0(x) == x.k = "ninf" \/ (x.k = "fin" /\ x.v < 0)

Eq0(x) == x.k = "fin" /\ x.v = 0

\* a <= b on non-nan floats
Leq(a, b) ==
    \/ a.k = "ninf"
    \/ b.k = "pinf"
    \/ (a.k = "fin" /\ b.k = "fin" /\ a.v <= b.v)

\* n/d (d > 0) rounded to the nearest integer, ties to the even one
RoundHalfEven(n, d) ==
    LET q == n \div d
        r == n % d
    IN  IF 2 * r < d THEN q
        ELSE IF 2 * r > d THEN q + 1
        ELSE IF q % 2 = 0 THEN q ELSE q + 1

\* round(x, 2) of a price in thousandths: the result in hundredths
round2(m) == RoundHalfEven(m, 10)

\* round((change / previous_close) * 100, 2): the result in hundredths
round_pct(change, previous_close) ==
    IF previous_close = 0
    THEN IF change > 0 THEN PInf
         ELSE IF change < 0 THEN NInf
         ELSE NaN
    ELSE IF previous_close > 0
         THEN Fin(RoundHalfEven(change * 10000, previous_close))
         ELSE Fin(RoundHalfEven(-(change * 10000), -previous_close))

\* --------------------------------------------------- MarketDataCollector
\* quote_row with the change taken from the rounded prices
quote_row_from_rounded(ix, hist) ==
    LET current_price  == hist[Len(hist)]
        previous_close == hist[Len(hist) - 1]
        change         == current_price - previous_close
    IN  [Index     |-> ix.name,
         Symbol    |-> ix.symbol,
         Current   |-> round2(current_price),
         Previous  |-> round2(previous_close),
         Change    |-> round2(current_price) - round2(previous_close),
         ChangePct |-> round_pct(change, previous_close)]

\* the dict appended for an index whose history has 2 or more rows
quote_row(ix, hist) ==
    LET current_price  == hist[Len(hist)]
        previous_close == hist[Len(hist) - 1]
        change         == current_price - previous_close
    IN  [Index     |-> ix.name,
         Symbol    |-> ix.symbol,
         Current   |-> round2(current_price),
         Previous  |-> round2(previous_close),
         Change    |-> round2(change),
         ChangePct |-> round_pct(change, previous_close)]

\* what the provider call of one index can do
Histories == UNION {[1..n -> Closes] : n \in 0..MaxHist}

ProviderOutcomes ==
    {[kind |-> "error", hist |-> << >>]}
        \cup {[kind |-> "hist", hist |-> h] : h \in Histories}

\* fetch_one that zero-fills an index with fewer than 2 history points
fetch_one_zero_fill(ix, o) ==
    IF o.kind = "error" THEN << >>
    ELSE IF Len(o.hist) >= 2 THEN << quote_row(ix, o.hist) >>
    ELSE << [Index |-> ix.name, Symbol |-> ix.symbol, Current |-> 0,
             Previous |-> 0, Change |-> 0, ChangePct |-> Fin(0)] >>

\* one iteration of the loop: the rows it appends to data
fetch_one(ix, o) ==
    IF o.kind = "error" THEN << >>
    ELSE IF Len(o.hist) >= 2 THEN << quote_row(ix, o.hist) >>
    ELSE << >>

\* df.empty
df_empty(df) == Len(df) = 0

\* ---------------------------------------------------------- MarketAnalyzer
RECURSIVE CountIf(_, _)
CountIf(df, j) ==
    IF j = 0 THEN [pos |-> 0, neg |-> 0, zero |-> 0, nan |-> 0, sum |-> 0,
                   fin |-> 0, pinf |-> 0, ninf |-> 0]
    ELSE LET c == CountIf(df, j - 1)
             x == df[j].ChangePct
         IN  [pos  |-> c.pos  + (IF Gt0(x) THEN 1 ELSE 0),
              neg  |-> c.neg  + (IF Lt0(x) THEN 1 ELSE 0),
              zero |-> c.zero + (IF Eq0(x) THEN 1 ELSE 0),
              nan  |-> c.nan  + (IF IsNaN(x) THEN 1 ELSE 0),
              sum  |-> c.sum  + (IF x.k = "fin" THEN x.v ELSE 0),
              fin  |-> c.fin  + (IF x.k = "fin" THEN 1 ELSE 0),
              pinf |-> c.pinf + (IF x.k = "pinf" THEN 1 ELSE 0),
              ninf |-> c.ninf + (IF x.k = "ninf" THEN 1 ELSE 0)]

\* df['Change %'].mean(): nan rows are skipped; the mean is the fraction
\* num/den (hundredths), or nan / +inf / -inf
mean(df) ==
    LET c == CountIf(df, Len(df))
    IN  IF c.fin + c.pinf + c.ninf = 0 THEN [k |-> "nan", num |-> 0, den |-> 1]
        ELSE IF c.pinf > 0 /\ c.ninf > 0 THEN [k |-> "nan", num |-> 0, den |-> 1]
        ELSE IF c.pinf > 0 THEN [k |-> "pinf", num |-> 0, den |-> 1]
        ELSE IF c.ninf > 0 THEN [k |-> "ninf", num |-> 0, den |-> 1]
        ELSE [k |-> "fin", num |-> c.sum, den |-> c.fin]

\* the rows idxmax / idxmin look at
NonNaN(df) == {j \in 1..Len(df) : ~IsNaN(df[j].ChangePct)}

\* df['Change %'].idxmax(): first row holding the maximum, 0 when all are nan
idxmax(df) ==
    LET S == NonNaN(df)
        M == {j \in S : \A h \in S : Leq(df[h].ChangePct, df[j].ChangePct)}
    IN  IF M = {} THEN 0 ELSE CHOOSE j \in M : \A h \in M : j <= h

idxmin(df) ==
    LET S == NonNaN(df)
        M == {j \in S : \A h \in S : Leq(df[j].ChangePct, df[h].ChangePct)}
    IN  IF M = {} THEN 0 ELSE CHOOSE j \in M : \A h \in M : j <= h

EmptyInsights ==
    [empty |-> TRUE, best_performer |-> 0, worst_performer |-> 0,
     avg_change |-> [k |-> "nan", num |-> 0, den |-> 1],
     positive_count |-> 0, negative_count |-> 0, total_count |-> 0]

\* analyze(df): raised is the KeyError of df.loc[nan] when every row is nan
analyze(df) ==
    IF df_empty(df) THEN [raised |-> FALSE, value |-> EmptyInsights]
    ELSE IF idxmax(df) = 0 THEN [raised |-> TRUE, value |-> EmptyInsights]
    ELSE LET c == CountIf(df, Len(df))
         IN  [raised |-> FALSE,
              value  |-> [empty           |-> FALSE,
                          best_performer  |-> idxmax(df),
                          worst_performer |-> idxmin(df),
                          avg_change      |-> mean(df),
                          positive_count  |-> c.pos,
                          negative_count  |-> c.neg,
                          total_count     |-> Len(df)]]

\* -------------------------------------------------------- ContentGenerator
\* insights['avg_change'] > 0 and insights['avg_change'] < -0.3
AvgGt0(a) == a.k = "pinf" \/ (a.k = "fin" /\ a.num > 0)

AvgLtFloor(a) == a.k = "ninf" \/ (a.k = "fin" /\ a.num < SentimentFloor * a.den)

\* sentiment with the threshold of "negative" at 0
sentiment_symmetric(avg_change) ==
    IF AvgGt0(avg_change) THEN "positive"
    ELSE IF avg_change.k = "ninf" \/ (avg_change.k = "fin" /\ avg_change.num < 0)
         THEN "negative"
    ELSE "mixed"

sentiment(avg_change) ==
    IF AvgGt0(avg_change) THEN "positive"
    ELSE IF AvgLtFloor(avg_change) THEN "negative"
    ELSE "mixed"

generate_summary(df, insights) ==
    IF df_empty(df) \/ insights.empty
    THEN [kind |-> "fallback", sentiment |-> "none", pos_count |-> 0,
          neg_count |-> 0, best |-> "none", worst |-> "none"]
    ELSE [kind      |-> "summary",
          sentiment |-> sentiment(insights.avg_change),
          pos_count |-> insights.positive_count,
          neg_count |-> insights.negative_count,
          best      |-> df[insights.best_performer].Index,
          worst     |-> df[insights.worst_performer].Index]

\* one glyph per row; the placeholder paragraph for an empty frame
create_html_table(df) ==
    IF df_empty(df) THEN [kind |-> "placeholder", rows |-> << >>]
    ELSE [kind |-> "table",
          rows |-> [j \in 1..Len(df) |->
                      IF Gt0(df[j].ChangePct) THEN "up"
                      ELSE IF Lt0(df[j].ChangePct) THEN "down"
                      ELSE "flat"]]

\* ---------------------------------------------------------- ChartGenerator
RenderOutcomes == {"ok", "raise"}

\* create_performance_chart that swallows a rendering error and returns None
create_performance_chart_absent(df, render) ==
    IF df_empty(df) THEN [raised |-> FALSE, value |-> "None"]
    ELSE IF render = "raise" THEN [raised |-> FALSE, value |-> "None"]
    ELSE [raised |-> FALSE, value |-> "png"]

\* render is what the plotting library does when it is called
create_performance_chart(df, render) ==
    IF df_empty(df) THEN [raised |-> FALSE, value |-> "None"]
    ELSE IF render = "raise" THEN [raised |-> TRUE, value |-> "None"]
    ELSE [raised |-> FALSE, value |-> "png"]

\* ------------------------------------------------------------ EmailNotifier
\* the step of the mail session that raises, or "ok" when none does
SmtpOutcomes == {"connect", "starttls", "login", "send", "ok"}

NoMessage == [kind |-> "unset", img_cid |-> "none", image_cid |-> "none"]

\* send_email without its try/except
send_email_unguarded(html_content, chart_data, smtp) ==
    [raised |-> smtp # "ok",
     ret    |-> IF smtp = "ok" THEN "True" ELSE "none",
     msg    |-> [kind      |-> "message",
                 img_cid   |-> html_content.img_cid,
                 image_cid |-> IF chart_data # "None" THEN "chart" ELSE "none"]]

\* send_email(recipient_email, subject, html_content, chart_data): the message
\* built in lines 253-269, then the session of lines 272-279 under the
\* try/except of lines 252 and 284
send_email(html_content, chart_data, smtp) ==
    [raised |-> FALSE,
     ret    |-> IF smtp = "ok" THEN "True" ELSE "False",
     msg    |-> [kind      |-> "message",
                 img_cid   |-> html_content.img_cid,
                 image_cid |-> IF chart_data # "None" THEN "chart" ELSE "none"]]

\* -------------------------------------------------------- MarketSummaryAgent
NoBody == [kind |-> "unset", narrative |-> "none", table |-> "none",
           img_cid |-> "none"]

NoSummary == [kind |-> "unset", sentiment |-> "none", pos_count |-> 0,
              neg_count |-> 0, best |-> "none", worst |-> "none"]

NoTable == [kind |-> "unset", rows |-> << >>]

\* run without the test of the empty frame
run_no_data_never(df) == FALSE

\* the guard of lines 307-309
run_no_data(df) == df_empty(df)

\* the f-string of lines 322-349: the img element is part of the template
build_html_body(summary, table) ==
    [kind |-> "html", narrative |-> summary.kind, table |-> table.kind,
     img_cid |-> "chart"]

\* a handler that re-raises
run_except_reraise(e) == [ret |-> "none", propagated |-> TRUE]

\* the handler of lines 365-367
run_except(e) == [ret |-> "False", propagated |-> FALSE]

VARIABLES
    pc,            \* position of main: start, in_run, poll, sleep, terminated
    caller,        \* who called run: none, main, schedule
    jobs,          \* the jobs the scheduler holds
    clock_due,     \* the clock has reached the job's next run time
    prev_ret,      \* what the previous call of run returned
    rpc,           \* position inside run
    i,             \* loop position of fetch_market_data
    data,          \* the rows collected so far / the frame df
    outcomes,      \* what the provider did for each index attempted
    insights,
    text_summary,
    html_table,
    chart_data,
    html_body,
    chart_failed,  \* create_performance_chart raised during this call
    send_calls,    \* calls of send_email during this call of run
    send_ret,      \* what send_email returned
    send_raised,   \* send_email let an exception out
    smtp_step,     \* the mail-session step that failed in that call
    sent,          \* the message send_email built
    exc,           \* the exception travelling to the handler of run
    ret,           \* the return value of run
    propagated     \* an exception left run

mainVars == <<pc, caller, jobs, clock_due, prev_ret>>

runVars == <<rpc, i, data, outcomes, insights, text_summary, html_table,
             chart_data, html_body, chart_failed, send_calls, send_ret,
             send_raised, smtp_step, sent, exc, ret, propagated>>

vars == <<pc, caller, jobs, clock_due, prev_ret, rpc, i, data, outcomes,
          insights, text_summary, html_table, chart_data, html_body,
          chart_failed, send_calls, send_ret, send_raised, smtp_step, sent,
          exc, ret, propagated>>

\* the locals of a call of run that has not started (or has returned)
RunLocals(pos) ==
    /\ rpc = pos
    /\ i = 1
    /\ data = << >>
    /\ outcomes = << >>
    /\ insights = EmptyInsights
    /\ text_summary = NoSummary
    /\ html_table = NoTable
    /\ chart_data = "None"
    /\ html_body = NoBody
    /\ chart_failed = FALSE
    /\ send_calls = 0
    /\ send_ret = "none"
    /\ send_raised = FALSE
    /\ smtp_step = "none"
    /\ sent = NoMessage
    /\ exc = "none"
    /\ ret = "none"
    /\ propagated = FALSE

Init ==
    /\ pc = "start"
    /\ caller = "none"
    /\ jobs = {}
    /\ clock_due = FALSE
    /\ prev_ret = "none"
    /\ RunLocals("idle")

\* main, lines 388-397: schedule the job, then call run once
Main ==
    /\ pc = "start"
    /\ jobs' = {"agent.run"}
    /\ pc' = "in_run"
    /\ caller' = "main"
    /\ rpc' = "fetch"
    /\ UNCHANGED <<clock_due, prev_ret, i, data, outcomes, insights,
                   text_summary, html_table, chart_data, html_body,
                   chart_failed, send_calls, send_ret, send_raised,
                   smtp_step, sent, exc, ret, propagated>>

\* schedule.run_pending(), line 401: a due job is run, otherwise nothing
RunPending ==
    /\ pc = "poll"
    /\ IF clock_due /\ jobs # {}
       THEN /\ pc' = "in_run"
            /\ caller' = "schedule"
            /\ rpc' = "fetch"
       ELSE /\ pc' = "sleep"
            /\ UNCHANGED <<caller, rpc>>
    /\ UNCHANGED <<jobs, clock_due, prev_ret, i, data, outcomes, insights,
                   text_summary, html_table, chart_data, html_body,
                   chart_failed, send_calls, send_ret, send_raised,
                   smtp_step, sent, exc, ret, propagated>>

\* time.sleep(60), line 402: the clock may reach the job's next run time
Sleep ==
    /\ pc = "sleep"
    /\ pc' = "poll"
    /\ \E reached \in BOOLEAN : clock_due' = (clock_due \/ reached)
    /\ UNCHANGED <<caller, jobs, prev_ret>>
    /\ UNCHANGED runVars

\* one iteration of the loop of fetch_market_data, lines 47-72
FetchIndex ==
    /\ pc = "in_run" /\ rpc = "fetch"
    /\ i <= Len(Indices)
    /\ \E o \in ProviderOutcomes :
          /\ data' = data \o fetch_one(Indices[i], o)
          /\ outcomes' = Append(outcomes, [name |-> Indices[i].name,
                                           kind |-> o.kind, hist |-> o.hist])
    /\ i' = i + 1
    /\ UNCHANGED mainVars
    /\ UNCHANGED <<rpc, insights, text_summary, html_table, chart_data,
                   html_body, chart_failed, send_calls, send_ret,
                   send_raised, smtp_step, sent, exc, ret, propagated>>

\* line 74 and lines 306-309: the frame is returned and tested
FetchReturn ==
    /\ pc = "in_run" /\ rpc = "fetch"
    /\ i > Len(Indices)
    /\ IF run_no_data(data)
       THEN rpc' = "return" /\ ret' = "False"
       ELSE rpc' = "analyze" /\ ret' = ret
    /\ UNCHANGED mainVars
    /\ UNCHANGED <<i, data, outcomes, insights, text_summary, html_table,
                   chart_data, html_body, chart_failed, send_calls, send_ret,
                   send_raised, smtp_step, sent, exc, propagated>>

\* line 312
Analyze ==
    /\ pc = "in_run" /\ rpc = "analyze"
    /\ LET r == analyze(data)
       IN  IF r.raised
           THEN rpc' = "except" /\ exc' = "KeyError" /\ insights' = insights
           ELSE rpc' = "content" /\ exc' = exc /\ insights' = r.value
    /\ UNCHANGED mainVars
    /\ UNCHANGED <<i, data, outcomes, text_summary, html_table, chart_data,
                   html_body, chart_failed, send_calls, send_ret, send_raised,
                   smtp_step, sent, ret, propagated>>

\* lines 315-316
GenerateContent ==
    /\ pc = "in_run" /\ rpc = "content"
    /\ text_summary' = generate_summary(data, insights)
    /\ html_table' = create_html_table(data)
    /\ rpc' = "chart"
    /\ UNCHANGED mainVars
    /\ UNCHANGED <<i, data, outcomes, insights, chart_data, html_body,
                   chart_failed, send_calls, send_ret, send_raised, smtp_step,
                   sent, exc, ret, propagated>>

\* line 319: nothing around the call catches what the renderer raises
CreateChart ==
    /\ pc = "in_run" /\ rpc = "chart"
    /\ \E render \in RenderOutcomes :
          LET r == create_performance_chart(data, render)
          IN  IF r.raised
              THEN /\ rpc' = "except" /\ exc' = "RenderError"
                   /\ chart_failed' = TRUE /\ chart_data' = chart_data
              ELSE /\ rpc' = "build" /\ exc' = exc
                   /\ chart_failed' = chart_failed /\ chart_data' = r.value
    /\ UNCHANGED mainVars
    /\ UNCHANGED <<i, data, outcomes, insights, text_summary, html_table,
                   html_body, send_calls, send_ret, send_raised, smtp_step,
                   sent, ret, propagated>>

\* lines 322-349
BuildEmail ==
    /\ pc = "in_run" /\ rpc = "build"
    /\ html_body' = build_html_body(text_summary, html_table)
    /\ rpc' = "send"
    /\ UNCHANGED mainVars
    /\ UNCHANGED <<i, data, outcomes, insights, text_summary, html_table,
                   chart_data, chart_failed, send_calls, send_ret,
                   send_raised, smtp_step, sent, exc, ret, propagated>>

\* lines 352-363: the call of send_email and the return of its result
SendEmail ==
    /\ pc = "in_run" /\ rpc = "send"
    /\ \E smtp \in SmtpOutcomes :
          LET r == send_email(html_body, chart_data, smtp)
          IN  /\ smtp_step' = smtp
              /\ sent' = r.msg
              /\ send_raised' = r.raised
              /\ IF r.raised
                 THEN /\ rpc' = "except" /\ exc' = "SMTPException"
                      /\ send_ret' = send_ret /\ ret' = ret
                 ELSE /\ rpc' = "return" /\ exc' = exc
                      /\ send_ret' = r.ret /\ ret' = r.ret
    /\ send_calls' = send_calls + 1
    /\ UNCHANGED mainVars
    /\ UNCHANGED <<i, data, outcomes, insights, text_summary, html_table,
                   chart_data, html_body, chart_failed, propagated>>

\* lines 365-367
RunExcept ==
    /\ pc = "in_run" /\ rpc = "except"
    /\ LET r == run_except(exc)
       IN  ret' = r.ret /\ propagated' = r.propagated
    /\ rpc' = "return"
    /\ UNCHANGED mainVars
    /\ UNCHANGED <<i, data, outcomes, insights, text_summary, html_table,
                   chart_data, html_body, chart_failed, send_calls, send_ret,
                   send_raised, smtp_step, sent, exc>>

\* control goes back to the caller of run: line 397 falls into the loop of
\* line 400; the scheduler keeps the job unless run returned CancelJob and
\* moves its next run time one day on. main has no handler of its own.
RunReturn ==
    /\ pc = "in_run" /\ rpc = "return"
    /\ prev_ret' = ret
    /\ caller' = "none"
    /\ IF propagated
       THEN pc' = "terminated" /\ jobs' = jobs /\ clock_due' = clock_due
       ELSE IF caller = "main"
       THEN pc' = "poll" /\ jobs' = jobs /\ clock_due' = clock_due
       ELSE /\ pc' = "sleep"
            /\ jobs' = IF ret = "CancelJob" THEN {} ELSE jobs
            /\ clock_due' = FALSE
    /\ rpc' = "idle"
    /\ i' = 1
    /\ data' = << >>
    /\ outcomes' = << >>
    /\ insights' = EmptyInsights
    /\ text_summary' = NoSummary
    /\ html_table' = NoTable
    /\ chart_data' = "None"
    /\ html_body' = NoBody
    /\ chart_failed' = FALSE
    /\ send_calls' = 0
    /\ send_ret' = "none"
    /\ send_raised' = FALSE
    /\ smtp_step' = "none"
    /\ sent' = NoMessage
    /\ exc' = "none"
    /\ ret' = "none"
    /\ propagated' = FALSE

Next ==
    \/ Main
    \/ RunPending
    \/ Sleep
    \/ FetchIndex
    \/ FetchReturn
    \/ Analyze
    \/ GenerateContent
    \/ CreateChart
    \/ BuildEmail
    \/ SendEmail
    \/ RunExcept
    \/ RunReturn

Spec == Init /\ [][Next]_vars

\* ------------------------------------------------------------- properties
\* the provider returned 2 or more history points for this attempt
Sufficient(o) == o.kind = "hist" /\ Len(o.hist) >= 2

\* the attempts of this call of run that yield a quote, in order
Quoted == SelectSeq(outcomes, Sufficient)

FetchCompleted == pc = "in_run" /\ rpc \notin {"idle", "fetch"}

\* C1: when no configured index yields a quote (each raised or returned fewer
\* than 2 history points), run returns False and send_email is never called
\* during that call of run.
C1_NoQuoteNoEmail ==
    (FetchCompleted /\ Quoted = << >>)
        => /\ send_calls = 0
           /\ rpc = "return"
           /\ ret = "False"
           /\ ~propagated

C1_Witness ==
    /\ FetchCompleted /\ rpc = "return"
    /\ Len(outcomes) = Len(Indices)
    /\ Quoted = << >>
    /\ \E j \in 1..Len(outcomes) : outcomes[j].kind = "error"
    /\ \E j \in 1..Len(outcomes) : outcomes[j].kind = "hist"

\* C2: a run with a non-empty frame in which create_performance_chart fails
\* still makes a delivery attempt (with the chart absent), and the outcome of
\* the run is the result of that attempt.
C2_ChartFailureStillDelivers ==
    (pc = "in_run" /\ rpc = "return" /\ chart_failed /\ ~df_empty(data))
        => /\ send_calls = 1
           /\ sent.image_cid = "none"
           /\ ret = send_ret

\* C3: when a step of the mail session fails (connect, STARTTLS, login or
\* sending), send_email returns False without raising, and the run that
\* called it returns False with no exception leaving run.
C3_DeliveryFailureIsFalse ==
    (pc = "in_run" /\ smtp_step \in SmtpOutcomes \ {"ok"})
        => /\ ~send_raised
           /\ send_ret = "False"
           /\ rpc = "return"
           /\ ret = "False"
           /\ ~propagated

C3_Witness ==
    /\ pc = "in_run" /\ rpc = "return"
    /\ send_calls = 1
    /\ smtp_step = "login"
    /\ ret = "False"

\* C4: whatever the provider does per index, every configured index is
\* attempted exactly once in configuration order, the frame holds exactly one
\* row for each index that returned 2 or more points and none for the others,
\* in configuration order, it is empty only if no index returned 2 or more
\* points, and no exception leaves the loop.
C4_FetchCollectsPartialResults ==
    /\ pc = "in_run" =>
          /\ Len(outcomes) = i - 1
          /\ Len(outcomes) <= Len(Indices)
          /\ \A j \in 1..Len(outcomes) : outcomes[j].name = Indices[j].name
          /\ Len(data) = Len(Quoted)
          /\ \A j \in 1..Len(data) :
                /\ data[j].Index = Quoted[j].name
                /\ \E h \in 1..Len(Indices) :
                      /\ Indices[h].name = data[j].Index
                      /\ Indices[h].symbol = data[j].Symbol
          /\ rpc = "fetch" => exc = "none" /\ ~propagated
    /\ FetchCompleted =>
          /\ Len(outcomes) = Len(Indices)
          /\ (df_empty(data) <=>
                \A j \in 1..Len(outcomes) : ~Sufficient(outcomes[j]))

C4_Witness ==
    /\ FetchCompleted
    /\ \E j \in 1..Len(outcomes) : outcomes[j].kind = "error"
    /\ \E j \in 1..Len(outcomes) : Sufficient(outcomes[j])
    /\ Len(data) = 1
    /\ data[1].Index = Indices[Len(Indices)].name

\* C5: every call of run ends in True or in False with no exception leaving
\* it; it returns True exactly when it made one delivery attempt and that
\* attempt returned True; no call makes more than one delivery attempt, and
\* a delivery attempt happens only after every configured index was fetched.
C5_RunOutcome ==
    /\ send_calls <= 1
    /\ send_calls >= 1 => Len(outcomes) = Len(Indices) /\ FetchCompleted
    /\ (pc = "in_run" /\ rpc = "return") =>
          /\ ret \in {"True", "False"}
          /\ ~propagated
          /\ (ret = "True" <=> (send_calls = 1 /\ send_ret = "True"))
    /\ pc # "terminated"

C5_Witness ==
    /\ pc = "in_run" /\ rpc = "return"
    /\ ret = "True"
    /\ send_calls = 1

\* C6: a run that ends in False does not end the process: main goes on
\* polling the scheduler, the job stays scheduled, and the next poll that
\* finds the job due calls run again.
C6_ProcessSurvivesFailure ==
    /\ [](pc # "terminated" /\ (prev_ret = "False" => "agent.run" \in jobs))
    /\ [][ /\ (pc = "in_run" /\ rpc = "return" /\ ret = "False")
                => pc' \in {"poll", "sleep"}
           /\ (pc = "poll" /\ clock_due /\ prev_ret = "False")
                => (pc' = "in_run" /\ caller' = "schedule" /\ rpc' = "fetch")
         ]_vars

C6_Witness ==
    /\ pc = "in_run" /\ caller = "schedule"
    /\ prev_ret = "False"
    /\ rpc = "return" /\ ret = "True"

\* C7: for every non-empty frame passed to analyze, positive_count plus
\* negative_count plus the number of rows whose Change % equals 0 is
\* total_count.
C7_CountsPartition ==
    (pc = "in_run" /\ ~insights.empty)
        => insights.positive_count + insights.negative_count
              + CountIf(data, Len(data)).zero = insights.total_count

\* C8: generate_summary labels the sentiment "positive" when the average
\* Change % is above 0, "negative" when it is below -0.3, and "mixed" in
\* every other case, the averages from -0.3 to 0 inclusive among them.
C8_SentimentLabel ==
    (pc = "in_run" /\ text_summary.kind = "summary") =>
        LET a == insights.avg_change
            s == text_summary.sentiment
        IN  /\ a.k = "fin" /\ a.num > 0 => s = "positive"
            /\ a.k = "fin" /\ a.num + 30 * a.den < 0 => s = "negative"
            /\ a.k = "fin" /\ a.num + 30 * a.den >= 0 /\ a.num <= 0
                  => s = "mixed"
            /\ a.k = "pinf" => s = "positive"
            /\ a.k = "ninf" => s = "negative"
            /\ a.k = "nan" => s = "mixed"

C8_Witness ==
    /\ pc = "in_run" /\ text_summary.kind = "summary"
    /\ insights.avg_change.k = "fin"
    /\ insights.avg_change.num + 30 * insights.avg_change.den = 0
    /\ text_summary.sentiment = "mixed"

\* C9 as stated: every stored row satisfies Change = Current - Previous on
\* its rounded fields.
C9_ChangeIsDifferenceOfStored ==
    \A j \in 1..Len(data) : data[j].Change = data[j].Current - data[j].Previous

\* C9 amended: the stored Change is the difference of the two unrounded
\* closes rounded to 2 decimals, and it is within 0.01 of stored Current
\* minus stored Previous.
C9_ChangeIsRoundedDifference ==
    pc = "in_run" =>
        \A j \in 1..Len(data) :
            LET h == Quoted[j].hist
                d == data[j].Change - (data[j].Current - data[j].Previous)
            IN  /\ data[j].Change = round2(h[Len(h)] - h[Len(h) - 1])
                /\ data[j].Current = round2(h[Len(h)])
                /\ data[j].Previous = round2(h[Len(h) - 1])
                /\ d \in {-1, 0, 1}

C9_Witness ==
    /\ pc = "in_run"
    /\ \E j \in 1..Len(data) :
          data[j].Change # data[j].Current - data[j].Previous

\* C10: in every document handed to send_email, the HTML body holds the img
\* element referring to content id "chart" exactly when chart bytes are
\* present and attached as the image part with that content id.
C10_ImageElementMatchesAttachment ==
    /\ (pc = "in_run" /\ rpc = "send") =>
          (html_body.img_cid = "chart" <=> chart_data # "None")
    /\ send_calls >= 1 =>
          (sent.img_cid = "chart"
              <=> (chart_data # "None" /\ sent.image_cid = "chart"))

C10_Witness ==
    /\ send_calls = 1
    /\ sent.kind = "message"
    /\ sent.img_cid = "chart"
    /\ sent.image_cid = "chart"
    /\ chart_data = "png"

====
